---- MODULE Spec2Model ----
(***************************************************************************)
(* Rewards Token Service (src/main.py): the token collection of the        *)
(* document store, the wall clock, and the request handlers                *)
(* generate_tokens, redeem_token, list_tokens and get_token, each split at *)
(* its store calls and clock reads so that concurrent requests interleave  *)
(* as the server's worker threads let them.                                *)
(*                                                                         *)
(* Optional[T] values are sequences of length at most one: None is <<>>,   *)
(* a value v is <<v>>.  A code is the sequence of its characters.          *)
(***************************************************************************)
EXTENDS Integers, Sequences, FiniteSets, TLC

\* ------------------------------------------------------------ bounds

\* Requests served over a run; request p arrives after request p-1 has.
NumProcs == 2
\* The wall clock runs over 0..MaxClock.
MaxClock == 2
\* How many characters of the alphabet the random source is explored over.
NumChars == 2

\* ------------------------------------------------- program constants

MinCount == 1
MaxCount == 500
MinLength == 6
MaxLength == 32
MinCurrencyLen == 1
MaxCurrencyLen == 6
MaxAttempts == 10
MaxLimit == 500

HTTP_OK == 200
HTTP_BAD_REQUEST == 400
HTTP_NOT_FOUND == 404
HTTP_UNPROCESSABLE == 422
HTTP_SERVER_ERROR == 500
HTTP_UNAVAILABLE == 503

None == <<>>
Some(v) == <<v>>

Procs == 1..NumProcs

\* string.ascii_uppercase + string.digits
alphabet ==
  << "A", "B", "C", "D", "E", "F", "G", "H", "I", "J", "K", "L", "M",
     "N", "O", "P", "Q", "R", "S", "T", "U", "V", "W", "X", "Y", "Z",
     "0", "1", "2", "3", "4", "5", "6", "7", "8", "9" >>

\* The outcomes of _generate_code(length): `length` draws from the alphabet.
\* The random source is explored over the draws that repeat one of the first
\* NumChars characters.
generate_code(length) ==
  { [i \in 1..length |-> alphabet[c]] : c \in 1..NumChars }

\* `if prefix: code = f"{prefix}{code}"`: None and "" are both falsy.
WithPrefixCounted(prefix, code) ==
  IF prefix # None /\ prefix[1] # <<>>
  THEN prefix[1] \o SubSeq(code, 1, Len(code) - Len(prefix[1]))
  ELSE code

WithPrefix(prefix, code) ==
  IF prefix # None /\ prefix[1] # <<>> THEN prefix[1] \o code ELSE code

\* ------------------------------------------------------------- state

VARIABLES
  db,        \* the module-level store handle: "client", or "None"
  token,     \* the collection db["token"]: documents in insertion order
  clock,     \* datetime.now(timezone.utc)
  pc,        \* where each request stands in its handler
  op,        \* the endpoint each request called
  payload,   \* the request body
  doc,       \* redeem_token's doc (the find_one result)
  now,       \* redeem_token's now (the clock read of the expiry check)
  update,    \* redeem_token's update["$set"]
  code,      \* _ensure_unique_code's code (the last candidate)
  attempts,  \* _ensure_unique_code's attempts
  created,   \* generate_tokens' created
  ids,       \* the _id of every document the request inserted
  response   \* the HTTP response: status, detail, body

vars == << db, token, clock, pc, op, payload, doc, now, update, code,
           attempts, created, ids, response >>

\* ------------------------------------------------------------- store

\* find_one({"code": code}): the first matching document, or None.
find_one(coll, c) ==
  LET hits == { i \in 1..Len(coll) : coll[i].code = c }
  IN  IF hits = {} THEN None
      ELSE Some(coll[CHOOSE i \in hits : \A j \in hits : i <= j])

\* create_document("token", data): stamps created_at and updated_at and
\* inserts the document, which gets a fresh _id.
create_document(coll, data, t) ==
  Append(coll, [ _id |-> Len(coll) + 1,
                 code |-> data.code, value |-> data.value,
                 currency |-> data.currency, purpose |-> data.purpose,
                 expires_at |-> data.expires_at, redeemed |-> data.redeemed,
                 redeemed_by |-> data.redeemed_by,
                 redeemed_at |-> data.redeemed_at,
                 created_at |-> Some(t), updated_at |-> Some(t) ])

\* update_one({"_id": id}, {"$set": set}): one atomic write of the fields.
update_oneUnfiltered(coll, id, set) ==
  [ i \in 1..Len(coll) |->
      [ coll[i] EXCEPT !.redeemed = set.redeemed,
                       !.redeemed_by = set.redeemed_by,
                       !.redeemed_at = set.redeemed_at,
                       !.updated_at = set.updated_at ] ]

update_one(coll, id, set) ==
  [ i \in 1..Len(coll) |->
      IF coll[i]._id = id
      THEN [ coll[i] EXCEPT !.redeemed = set.redeemed,
                            !.redeemed_by = set.redeemed_by,
                            !.redeemed_at = set.redeemed_at,
                            !.updated_at = set.updated_at ]
      ELSE coll[i] ]

\* find_one({"_id": id})
find_by_id(coll, id) ==
  LET hits == { i \in 1..Len(coll) : coll[i]._id = id }
  IN  IF hits = {} THEN None ELSE Some(coll[CHOOSE i \in hits : TRUE])

\* --------------------------------------------------------- responses

\* generate_tokens' doc.
NewDoc(c, p) ==
  [ code |-> c, value |-> p.value, currency |-> p.currency,
    purpose |-> p.purpose, expires_at |-> p.expires_at,
    redeemed |-> FALSE, redeemed_by |-> None, redeemed_at |-> None ]

\* TokenPublic(**doc) of generate_tokens: doc has no created_at, and the
\* Optional field is taken to default to None.
TokenPublicOfNew(d) ==
  [ code |-> d.code, value |-> d.value, currency |-> d.currency,
    purpose |-> d.purpose, expires_at |-> d.expires_at,
    redeemed |-> d.redeemed, redeemed_by |-> d.redeemed_by,
    redeemed_at |-> d.redeemed_at, created_at |-> None ]

\* TokenPublic(code=d.get("code"), ...) of a stored document.
TokenPublic(d) ==
  [ code |-> d.code, value |-> d.value, currency |-> d.currency,
    purpose |-> d.purpose, expires_at |-> d.expires_at,
    redeemed |-> d.redeemed, redeemed_by |-> d.redeemed_by,
    redeemed_at |-> d.redeemed_at, created_at |-> d.created_at ]

Response(status, detail, body) ==
  [ status |-> status, detail |-> detail, body |-> body ]

NoResponse == Response(0, "", <<>>)

\* -------------------------------------------------------- validation

\* GenerateTokensRequest's Field constraints.
ValidGenerateNoLength(p) ==
  /\ p.count >= MinCount /\ p.count <= MaxCount
  /\ p.value >= 0
  /\ Len(p.currency) >= MinCurrencyLen /\ Len(p.currency) <= MaxCurrencyLen

ValidGenerate(p) ==
  /\ p.count >= MinCount /\ p.count <= MaxCount
  /\ p.value >= 0
  /\ Len(p.currency) >= MinCurrencyLen /\ Len(p.currency) <= MaxCurrencyLen
  /\ p.length >= MinLength /\ p.length <= MaxLength

\* ------------------------------------------------------------ inputs

GenPayload(count, value, currency, expires_at, length, prefix) ==
  [ count |-> count, value |-> value, currency |-> currency,
    purpose |-> Some("promo"), expires_at |-> expires_at,
    length |-> length, prefix |-> prefix,
    code |-> <<>>, client_id |-> "" ]

RedeemPayload(c, client_id) ==
  [ count |-> 0, value |-> 0, currency |-> "", purpose |-> None,
    expires_at |-> None, length |-> 0, prefix |-> None,
    code |-> c, client_id |-> client_id ]

NoPayload == RedeemPayload(<<>>, "")

ValidGenPayloads ==
  { GenPayload(1, 5, "USD", Some(1), MinLength, None),
    GenPayload(2, 5, "USD", None, MinLength, Some(<<>>)),
    GenPayload(1, 5, "USD", None, MinLength, Some(<<"A">>)) }

InvalidGenPayloads ==
  { GenPayload(MinCount - 1, 5, "USD", None, MinLength, None),
    GenPayload(MaxCount + 1, 5, "USD", None, MinLength, None),
    GenPayload(1, -1, "USD", None, MinLength, None),
    GenPayload(1, 5, "", None, MinLength, None),
    GenPayload(1, 5, "DOLLARS", None, MinLength, None),
    GenPayload(1, 5, "USD", None, MinLength - 1, None),
    GenPayload(1, 5, "USD", None, MaxLength + 1, None) }

GenPayloads == ValidGenPayloads \cup InvalidGenPayloads

\* A code generate may have issued, and one it never issues.
IssuedCode == [i \in 1..MinLength |-> "A"]
UnknownCode == [i \in 1..MinLength |-> "Z"]

\* Another code generate may have issued.
OtherCode == [i \in 1..MinLength |-> "B"]

RedeemPayloads ==
  { RedeemPayload(IssuedCode, k) : k \in { "", "abc", "xyz" } }
    \cup { RedeemPayload(UnknownCode, "abc"), RedeemPayload(OtherCode, "abc") }

\* GET /api/tokens/{code}: the code is the whole input.
GetPayloads ==
  { RedeemPayload(c, "") : c \in { IssuedCode, OtherCode, UnknownCode } }

\* GET /api/tokens?limit=..&only_active=..
ListPayload(limit, only_active) ==
  [ count |-> 0, value |-> 0, currency |-> "", purpose |-> None,
    expires_at |-> None, length |-> 0, prefix |-> None,
    code |-> <<>>, client_id |-> "",
    limit |-> limit, only_active |-> only_active ]

ListPayloads ==
  { ListPayload(l, a) : l \in { -1, 1, 2, MaxLimit + 1 }, a \in BOOLEAN }

\* -------------------------------------------------------------- Init

\* The store outlives the server: at start-up the collection is empty, or
\* holds a token an earlier run issued at time 0, with or without an expiry.
InitialStores ==
  { <<>> } \cup
  { create_document(<<>>,
      NewDoc(IssuedCode, GenPayload(1, 5, "USD", e, MinLength, None)), 0) :
      e \in { None, Some(1) } }

Init ==
  /\ db \in { "client", "None" }
  /\ token \in (IF db = "None" THEN { <<>> } ELSE InitialStores)
  /\ clock = 0
  /\ pc = [p \in Procs |-> "idle"]
  /\ op = [p \in Procs |-> "none"]
  /\ payload = [p \in Procs |-> NoPayload]
  /\ doc = [p \in Procs |-> None]
  /\ now = [p \in Procs |-> None]
  /\ update = [p \in Procs |-> None]
  /\ code = [p \in Procs |-> <<>>]
  /\ attempts = [p \in Procs |-> 0]
  /\ created = [p \in Procs |-> <<>>]
  /\ ids = [p \in Procs |-> <<>>]
  /\ response = [p \in Procs |-> NoResponse]

\* Request p arrives once request p-1 has.
MayArrive(p) ==
  /\ pc[p] = "idle"
  /\ IF p = 1 THEN TRUE ELSE pc[p - 1] # "idle"

Finish(p, r) ==
  /\ pc' = [pc EXCEPT ![p] = "done"]
  /\ response' = [response EXCEPT ![p] = r]

\* ------------------------------------------------------------- clock

Tick ==
  /\ clock < MaxClock
  /\ clock' = clock + 1
  /\ UNCHANGED << db, token, pc, op, payload, doc, now, update, code,
                  attempts, created, ids, response >>

\* ---------------------------------------------------- generate_tokens

\* `while attempts < 10`
KeepTryingOneMore(a) == a <= MaxAttempts

KeepTrying(a) == a < MaxAttempts

\* `if not existing`
IsFreeAlways(existing) == TRUE

IsFree(existing) == existing = None

\* POST /api/tokens/generate: the body is validated, then the handler runs
\* to its first store call.
GenerateStart(p) ==
  /\ MayArrive(p)
  /\ \E pl \in GenPayloads :
       /\ op' = [op EXCEPT ![p] = "generate"]
       /\ payload' = [payload EXCEPT ![p] = pl]
       /\ IF ~ValidGenerate(pl)
          THEN Finish(p, Response(HTTP_UNPROCESSABLE, "validation error", <<>>))
          ELSE IF db = "None"
          THEN Finish(p, Response(HTTP_UNAVAILABLE, "Database not available", <<>>))
          ELSE /\ pc' = [pc EXCEPT ![p] = "ensure"]
               /\ UNCHANGED response
  /\ UNCHANGED << db, token, clock, doc, now, update, code, attempts,
                  created, ids >>

\* One pass of _ensure_unique_code's loop: a candidate and its lookup.
EnsureUniqueRollback(p) ==
  /\ pc[p] = "ensure"
  /\ \E c \in generate_code(payload[p].length) :
       LET cand == WithPrefix(payload[p].prefix, c)
           existing == find_one(token, cand)
           mine == { ids[p][k] : k \in 1..Len(ids[p]) }
           NotMine(d) == d._id \notin mine
       IN  /\ code' = [code EXCEPT ![p] = cand]
           /\ IF IsFree(existing)
              THEN /\ pc' = [pc EXCEPT ![p] = "create"]
                   /\ UNCHANGED << attempts, response, token >>
              ELSE /\ attempts' = [attempts EXCEPT ![p] = @ + 1]
                   /\ IF KeepTrying(attempts[p] + 1)
                      THEN UNCHANGED << pc, response, token >>
                      ELSE /\ token' = SelectSeq(token, NotMine)
                           /\ Finish(p, Response(HTTP_SERVER_ERROR,
                                "Could not generate a unique token code. Try again.",
                                <<>>))
  /\ UNCHANGED << db, clock, op, payload, doc, now, update, created, ids >>

EnsureUnique(p) ==
  /\ pc[p] = "ensure"
  /\ \E c \in generate_code(payload[p].length) :
       LET cand == WithPrefix(payload[p].prefix, c)
           existing == find_one(token, cand)
       IN  /\ code' = [code EXCEPT ![p] = cand]
           /\ IF IsFree(existing)
              THEN /\ pc' = [pc EXCEPT ![p] = "create"]
                   /\ UNCHANGED << attempts, response >>
              ELSE /\ attempts' = [attempts EXCEPT ![p] = @ + 1]
                   /\ IF KeepTrying(attempts[p] + 1)
                      THEN UNCHANGED << pc, response >>
                      ELSE Finish(p, Response(HTTP_SERVER_ERROR,
                             "Could not generate a unique token code. Try again.",
                             <<>>))
  /\ UNCHANGED << db, token, clock, op, payload, doc, now, update,
                  created, ids >>

\* The rest of one pass of generate_tokens' loop: the document is stored and
\* appended to created; after the last pass the handler returns.
CreateToken(p) ==
  /\ pc[p] = "create"
  /\ LET d == NewDoc(code[p], payload[p])
         out == Append(created[p], TokenPublicOfNew(d))
     IN  /\ token' = create_document(token, d, clock)
         /\ ids' = [ids EXCEPT ![p] = Append(@, Len(token) + 1)]
         /\ created' = [created EXCEPT ![p] = out]
         /\ IF Len(out) = payload[p].count
            THEN /\ Finish(p, Response(HTTP_OK, "", out))
                 /\ UNCHANGED attempts
            ELSE /\ pc' = [pc EXCEPT ![p] = "ensure"]
                 /\ attempts' = [attempts EXCEPT ![p] = 0]
                 /\ UNCHANGED response
  /\ UNCHANGED << db, clock, op, payload, doc, now, update, code >>

\* ------------------------------------------------------- redeem_token

\* `if doc.get("redeemed")`
IsRedeemedNever(d) == FALSE

IsRedeemed(d) == d.redeemed

\* `if expires_at <= now`
IsExpiredStrict(expires_at, t) == expires_at < t

IsExpired(expires_at, t) == expires_at <= t

\* POST /api/tokens/redeem, to `if expires_at is not None`.
RedeemFind(p) ==
  /\ MayArrive(p)
  /\ \E pl \in RedeemPayloads :
       LET found == find_one(token, pl.code)
       IN  /\ op' = [op EXCEPT ![p] = "redeem"]
           /\ payload' = [payload EXCEPT ![p] = pl]
           /\ IF db = "None"
              THEN /\ Finish(p, Response(HTTP_UNAVAILABLE, "Database not available", <<>>))
                   /\ UNCHANGED doc
              ELSE IF found = None
              THEN /\ Finish(p, Response(HTTP_NOT_FOUND, "Invalid token code", <<>>))
                   /\ UNCHANGED doc
              ELSE IF IsRedeemed(found[1])
              THEN /\ Finish(p, Response(HTTP_BAD_REQUEST, "Token already redeemed", <<>>))
                   /\ doc' = [doc EXCEPT ![p] = found]
              ELSE /\ pc' = [pc EXCEPT ![p] =
                        IF found[1].expires_at # None THEN "expiry" ELSE "stamp"]
                   /\ doc' = [doc EXCEPT ![p] = found]
                   /\ UNCHANGED response
  /\ UNCHANGED << db, token, clock, now, update, code, attempts, created, ids >>

\* The expiry check of a token that has an expiry: the clock is read.
RedeemExpiry(p) ==
  /\ pc[p] = "expiry"
  /\ now' = [now EXCEPT ![p] = Some(clock)]
  /\ IF IsExpired(doc[p][1].expires_at[1], clock)
     THEN Finish(p, Response(HTTP_BAD_REQUEST, "Token has expired", <<>>))
     ELSE /\ pc' = [pc EXCEPT ![p] = "stamp"]
          /\ UNCHANGED response
  /\ UNCHANGED << db, token, clock, op, payload, doc, update, code,
                  attempts, created, ids >>

\* The update document is built: redeemed_at and updated_at read the clock.
RedeemStamp(p) ==
  /\ pc[p] = "stamp"
  /\ update' = [update EXCEPT ![p] =
       Some([ redeemed |-> TRUE,
              redeemed_by |-> Some(payload[p].client_id),
              redeemed_at |-> Some(clock),
              updated_at |-> Some(clock) ])]
  /\ pc' = [pc EXCEPT ![p] = "update"]
  /\ UNCHANGED << db, token, clock, op, payload, doc, now, code, attempts,
                  created, ids, response >>

\* db["token"].update_one({"_id": doc["_id"]}, update)
RedeemUpdate(p) ==
  /\ pc[p] = "update"
  /\ token' = update_one(token, doc[p][1]._id, update[p][1])
  /\ pc' = [pc EXCEPT ![p] = "reread"]
  /\ UNCHANGED << db, clock, op, payload, doc, now, update, code, attempts,
                  created, ids, response >>

\* updated = db["token"].find_one({"_id": doc["_id"]}), and the response.
RedeemReread(p) ==
  /\ pc[p] = "reread"
  /\ LET updated == find_by_id(token, doc[p][1]._id)
     IN  Finish(p, Response(HTTP_OK, "", << TokenPublic(updated[1]) >>))
  /\ UNCHANGED << db, token, clock, op, payload, doc, now, update, code,
                  attempts, created, ids >>

\* --------------------------------------------------------------- Next

Next ==
  \/ Tick
  \/ \E p \in Procs :
       \/ GenerateStart(p)
       \/ EnsureUnique(p)
       \/ CreateToken(p)
       \/ RedeemFind(p)
       \/ RedeemExpiry(p)
       \/ RedeemStamp(p)
       \/ RedeemUpdate(p)
       \/ RedeemReread(p)

Spec == Init /\ [][Next]_vars

\* The workload of redeem requests alone, on the tokens the store holds at
\* start-up.
NextRedeem ==
  \/ Tick
  \/ \E p \in Procs :
       \/ RedeemFind(p)
       \/ RedeemExpiry(p)
       \/ RedeemStamp(p)
       \/ RedeemUpdate(p)
       \/ RedeemReread(p)

SpecRedeem == Init /\ [][NextRedeem]_vars

\* ------------------------------------------------ get_token, list_tokens

min(a, b) == IF a <= b THEN a ELSE b

max(a, b) == IF a >= b THEN a ELSE b

\* `.limit(max(1, min(limit, 500)))`
LimitOf(limit) == max(1, min(limit, MaxLimit))

\* The only_active query: redeemed is false and expires_at is after now,
\* missing or null.
IsActive(d, t) ==
  /\ ~d.redeemed
  /\ IF d.expires_at = None THEN TRUE ELSE d.expires_at[1] > t

\* The documents `find(query)` matches, by position in the collection.
Matching(coll, only_active, t) ==
  { i \in 1..Len(coll) : only_active => IsActive(coll[i], t) }

\* `.sort("created_at", -1)`: the matching documents newest first; documents
\* with equal created_at come in any order.
Sorted(coll, m) ==
  { s \in [1..Cardinality(m) -> m] :
      /\ \A k, l \in 1..Cardinality(m) : k # l => s[k] # s[l]
      /\ \A k \in 1..(Cardinality(m) - 1) :
           coll[s[k]].created_at[1] >= coll[s[k + 1]].created_at[1] }

\* The bodies list_tokens may return for the store coll read at time t.
list_tokens(coll, limit, only_active, t) ==
  LET m == Matching(coll, only_active, t)
      n == min(LimitOf(limit), Cardinality(m))
  IN  { [k \in 1..n |-> TokenPublic(coll[s[k]])] : s \in Sorted(coll, m) }

\* The response of get_token(code) on the store coll.
get_token(coll, c) ==
  LET found == find_one(coll, c)
  IN  IF found = None
      THEN Response(HTTP_NOT_FOUND, "Token not found", <<>>)
      ELSE Response(HTTP_OK, "", << TokenPublic(found[1]) >>)

\* GET /api/tokens/{code}
Get(p) ==
  /\ MayArrive(p)
  /\ \E pl \in GetPayloads :
       /\ op' = [op EXCEPT ![p] = "get"]
       /\ payload' = [payload EXCEPT ![p] = pl]
       /\ IF db = "None"
          THEN Finish(p, Response(HTTP_UNAVAILABLE, "Database not available", <<>>))
          ELSE Finish(p, get_token(token, pl.code))
  /\ UNCHANGED << db, token, clock, doc, now, update, code, attempts,
                  created, ids >>

\* GET /api/tokens, to the clock read.
ListStart(p) ==
  /\ MayArrive(p)
  /\ \E pl \in ListPayloads :
       /\ op' = [op EXCEPT ![p] = "list"]
       /\ payload' = [payload EXCEPT ![p] = pl]
  /\ IF db = "None"
     THEN /\ Finish(p, Response(HTTP_UNAVAILABLE, "Database not available", <<>>))
          /\ UNCHANGED now
     ELSE /\ now' = [now EXCEPT ![p] = Some(clock)]
          /\ pc' = [pc EXCEPT ![p] = "find"]
          /\ UNCHANGED response
  /\ UNCHANGED << db, token, clock, doc, update, code, attempts, created, ids >>

\* The query and the response.
ListFindPurging(p) ==
  /\ pc[p] = "find"
  /\ \E out \in list_tokens(token, payload[p].limit, payload[p].only_active,
                              now[p][1]) :
       Finish(p, Response(HTTP_OK, "", out))
  /\ LET Unexpired(d) ==
           IF d.expires_at = None THEN TRUE ELSE d.expires_at[1] > now[p][1]
     IN  token' = SelectSeq(token, Unexpired)
  /\ UNCHANGED << db, clock, op, payload, doc, now, update, code,
                  attempts, created, ids >>

ListFind(p) ==
  /\ pc[p] = "find"
  /\ \E out \in list_tokens(token, payload[p].limit, payload[p].only_active,
                              now[p][1]) :
       Finish(p, Response(HTTP_OK, "", out))
  /\ UNCHANGED << db, token, clock, op, payload, doc, now, update, code,
                  attempts, created, ids >>

\* The store some time into its life: a token issued at time 0 that expires
\* at 2 and a newer one, issued at 1, with no expiry, which a client may
\* have redeemed.
QueryStores ==
  LET s1 == create_document(<<>>,
              NewDoc(IssuedCode,
                     GenPayload(1, 5, "USD", Some(2), MinLength, None)), 0)
      s2 == create_document(s1,
              NewDoc(OtherCode,
                     GenPayload(1, 7, "EUR", None, MinLength, None)), 1)
      s3 == update_one(s2, 2,
              [ redeemed |-> TRUE, redeemed_by |-> Some("abc"),
                redeemed_at |-> Some(1), updated_at |-> Some(1) ])
  IN  { s2, s3 }

InitQuery ==
  /\ db \in { "client", "None" }
  /\ token \in (IF db = "None" THEN { <<>> } ELSE QueryStores)
  /\ clock = 1
  /\ pc = [p \in Procs |-> "idle"]
  /\ op = [p \in Procs |-> "none"]
  /\ payload = [p \in Procs |-> NoPayload]
  /\ doc = [p \in Procs |-> None]
  /\ now = [p \in Procs |-> None]
  /\ update = [p \in Procs |-> None]
  /\ code = [p \in Procs |-> <<>>]
  /\ attempts = [p \in Procs |-> 0]
  /\ created = [p \in Procs |-> <<>>]
  /\ ids = [p \in Procs |-> <<>>]
  /\ response = [p \in Procs |-> NoResponse]

\* The workload of reads and redeems on that store.
NextQuery ==
  \/ Tick
  \/ \E p \in Procs :
       \/ Get(p)
       \/ ListStart(p)
       \/ ListFind(p)
       \/ RedeemFind(p)
       \/ RedeemExpiry(p)
       \/ RedeemStamp(p)
       \/ RedeemUpdate(p)
       \/ RedeemReread(p)

SpecQuery == InitQuery /\ [][NextQuery]_vars

\* ------------------------------------------------------------ claims

Done(p) == pc[p] = "done"

Succeeded(p) == Done(p) /\ response[p].status = HTTP_OK

RedeemDone(p) == Done(p) /\ op[p] = "redeem"

GenerateDone(p) == Done(p) /\ op[p] = "generate"

\* The redeem request found its token and found it unredeemed.
FoundUnredeemed(p) == doc[p] # None /\ ~doc[p][1].redeemed

AlreadyRedeemedResponse ==
  Response(HTTP_BAD_REQUEST, "Token already redeemed", <<>>)

ExpiredResponse == Response(HTTP_BAD_REQUEST, "Token has expired", <<>>)

\* No redeem request carries an empty client_id.
NoEmptyClient == \A p \in Procs : op[p] = "redeem" => payload[p].client_id # ""

\* C1: of two redeem requests on the same unredeemed, unexpired code that
\* run concurrently, exactly one returns success and the other fails with
\* "already redeemed"; never do both return success.
C1_ExactlyOneRedeemSucceeds ==
  \A p, q \in Procs :
    ( /\ p # q
      /\ RedeemDone(p) /\ RedeemDone(q)
      /\ payload[p].code = payload[q].code
      /\ payload[p].client_id # "" /\ payload[q].client_id # ""
      /\ FoundUnredeemed(p) /\ FoundUnredeemed(q)
      /\ response[p] # ExpiredResponse /\ response[q] # ExpiredResponse )
    => /\ ~(Succeeded(p) /\ Succeeded(q))
       /\ Succeeded(p) \/ Succeeded(q)
       /\ response[p] = AlreadyRedeemedResponse
            \/ response[q] = AlreadyRedeemedResponse

\* C2: once a stored token has redeemed = true, its redeemed flag never
\* returns to false and its redeemed_by and redeemed_at never change again.
C2_RedeemedIsFinal ==
  [][ \A i \in 1..Len(token) :
        (token[i].redeemed /\ NoEmptyClient) =>
          /\ token'[i].redeemed
          /\ token'[i].redeemed_by = token[i].redeemed_by
          /\ token'[i].redeemed_at = token[i].redeemed_at ]_vars

\* C3: no two persisted tokens have the same code.
C3_CodesUnique ==
  \A i, j \in 1..Len(token) : i # j => token[i].code # token[j].code

\* C4: a redeem request on a code whose token is already redeemed fails
\* with "already redeemed", whatever its client_id and whether or not the
\* token's expires_at has passed, and leaves the store as it was.
C4_AlreadyRedeemedFails ==
  [][ \A p \in Procs :
        ( /\ pc[p] = "idle" /\ pc'[p] # "idle" /\ op'[p] = "redeem"
          /\ find_one(token, payload'[p].code) # None
          /\ find_one(token, payload'[p].code)[1].redeemed )
        => /\ pc'[p] = "done"
           /\ response'[p] = AlreadyRedeemedResponse
           /\ token' = token ]_vars

\* A request was refused as already redeemed on a token that had expired
\* by the time it was redeemed, hence by the time of the refused request.
C4_Witness ==
  \E p \in Procs :
    /\ RedeemDone(p)
    /\ response[p] = AlreadyRedeemedResponse
    /\ doc[p][1].expires_at # None
    /\ doc[p][1].redeemed_at[1] >= doc[p][1].expires_at[1]
    /\ doc[p][1].redeemed_by # Some(payload[p].client_id)

\* C5: a redeem of an unredeemed token with expires_at set, whose expiry
\* check reads the clock at now, fails with "expired" and leaves the store
\* unchanged exactly when expires_at <= now; with expires_at after now, or
\* absent, the redeem succeeds.
C5_ExpiryBoundary ==
  /\ [](\A p \in Procs :
          (RedeemDone(p) /\ FoundUnredeemed(p)) =>
            LET expires_at == doc[p][1].expires_at
            IN  IF expires_at # None /\ expires_at[1] <= now[p][1]
                THEN response[p] = ExpiredResponse
                ELSE Succeeded(p))
  /\ [][ \A p \in Procs :
           (pc[p] = "expiry" /\ pc'[p] # "expiry") =>
             IF doc[p][1].expires_at[1] <= clock
             THEN /\ pc'[p] = "done"
                  /\ response'[p] = ExpiredResponse
                  /\ token' = token
             ELSE pc'[p] = "stamp" ]_vars

\* One request was refused with expires_at equal to now while another, whose
\* check read the clock one tick earlier, succeeded.
C5_Witness ==
  \E p, q \in Procs :
    /\ RedeemDone(p) /\ response[p] = ExpiredResponse
    /\ now[p] = doc[p][1].expires_at
    /\ RedeemDone(q) /\ Succeeded(q)
    /\ doc[q][1].expires_at # None
    /\ now[q][1] + 1 = doc[q][1].expires_at[1]

\* The requests that took a step: a request's pc or attempts changes in
\* every step it takes.
Stepped(p) == pc'[p] # pc[p] \/ attempts'[p] # attempts[p]

\* C6: a generate request that returns successfully with count = n has
\* added exactly n new records to the store and returned exactly those n
\* records, with pairwise distinct codes, each with redeemed = false and
\* redeemed_by and redeemed_at absent.
C6_GenerateReturnsItsRecords ==
  /\ [](\A p \in Procs :
          (GenerateDone(p) /\ Succeeded(p)) =>
            LET n == payload[p].count
                body == response[p].body
            IN  /\ Len(body) = n
                /\ Len(ids[p]) = n
                /\ \A k, l \in 1..n :
                     k # l => /\ body[k].code # body[l].code
                              /\ ids[p][k] # ids[p][l]
                /\ \A k \in 1..n :
                     /\ ~body[k].redeemed
                     /\ body[k].redeemed_by = None
                     /\ body[k].redeemed_at = None
                     /\ ids[p][k] \in 1..Len(token)
                     /\ token[ids[p][k]].code = body[k].code
                     /\ token[ids[p][k]].value = body[k].value
                     /\ token[ids[p][k]].currency = body[k].currency
                     /\ token[ids[p][k]].purpose = body[k].purpose
                     /\ token[ids[p][k]].expires_at = body[k].expires_at
                /\ \A q \in Procs \ {p} : \A k \in 1..n, l \in 1..Len(ids[q]) :
                     ids[p][k] # ids[q][l])
  /\ [][ /\ Len(token') - Len(token)
              = Cardinality({ p \in Procs : ids'[p] # ids[p] })
         /\ \A p \in Procs :
              ids'[p] # ids[p] =>
                /\ op[p] = "generate"
                /\ ids'[p] = Append(ids[p], Len(token'))
                /\ SubSeq(token', 1, Len(token)) = token
                /\ ~token'[Len(token')].redeemed ]_vars

\* A request for two tokens has returned successfully.
C6_Witness ==
  \E p \in Procs :
    GenerateDone(p) /\ Succeeded(p) /\ payload[p].count = 2
      /\ Len(response[p].body) = 2

\* C7: every stored token with redeemed = false has redeemed_by and
\* redeemed_at absent; every stored token with redeemed = true has both
\* present, a non-empty client identifier and a timestamp, with
\* redeemed_at >= created_at.
C7_RedeemedFieldsConsistent ==
  \A i \in 1..Len(token) :
    IF ~token[i].redeemed
    THEN token[i].redeemed_by = None /\ token[i].redeemed_at = None
    ELSE /\ token[i].redeemed_by # None
         /\ token[i].redeemed_by[1] # ""
         /\ token[i].redeemed_at # None
         /\ token[i].created_at # None
         /\ token[i].redeemed_at[1] >= token[i].created_at[1]

\* C8: a redeem request that returns success returns a record with
\* redeemed = true and redeemed_by equal to its own client_id, and the
\* stored record holds that client_id as the request returns.
C8_SuccessReturnsOwnClient ==
  [][ \A p \in Procs :
        ( /\ op[p] = "redeem" /\ pc[p] # "done" /\ pc'[p] = "done"
          /\ response'[p].status = HTTP_OK
          /\ NoEmptyClient )
        => /\ response'[p].body[1].redeemed
           /\ response'[p].body[1].redeemed_by = Some(payload[p].client_id)
           /\ token'[doc[p][1]._id].redeemed_by = Some(payload[p].client_id)
    ]_vars

\* C9: for each token of a generate request at most MaxAttempts candidate
\* codes are generated and looked up; the first candidate that is not stored
\* is used, and when MaxAttempts candidates in a row are stored the request
\* fails with the server error; there is never a further attempt.
C9_BoundedRetry ==
  /\ [](\A p \in Procs :
          /\ attempts[p] \in 0..MaxAttempts
          /\ pc[p] = "ensure" => attempts[p] < MaxAttempts
          /\ (GenerateDone(p) /\ response[p].status = HTTP_SERVER_ERROR)
               <=> (op[p] = "generate" /\ attempts[p] = MaxAttempts))
  /\ [][ \A p \in Procs :
           (pc[p] = "ensure" /\ Stepped(p)) =>
             IF find_one(token, code'[p]) = None
             THEN /\ pc'[p] = "create"
                  /\ attempts'[p] = attempts[p]
             ELSE /\ attempts'[p] = attempts[p] + 1
                  /\ IF attempts'[p] < MaxAttempts
                     THEN pc'[p] = "ensure"
                     ELSE /\ pc'[p] = "done"
                          /\ response'[p].status = HTTP_SERVER_ERROR
                          /\ response'[p].detail =
                               "Could not generate a unique token code. Try again."
    ]_vars
  /\ [][ \A p \in Procs :
           (pc[p] = "create" /\ Stepped(p)) =>
             token'[Len(token')].code = code[p] ]_vars

\* A request has failed after MaxAttempts candidates that were all stored.
C9_Witness ==
  \E p \in Procs :
    /\ GenerateDone(p)
    /\ response[p].status = HTTP_SERVER_ERROR
    /\ attempts[p] = MaxAttempts
    /\ find_one(token, code[p]) # None

\* The request body is out of the ranges the contract gives.
OutOfRange(pl) ==
  \/ pl.count < 1 \/ pl.count > 500
  \/ pl.value < 0
  \/ pl.length < 6 \/ pl.length > 32
  \/ Len(pl.currency) < 1 \/ Len(pl.currency) > 6

\* C10: a generate request with count outside [1,500], value < 0, length
\* outside [6,32] or currency length outside [1,6] is rejected with a
\* validation error before any code is generated, and the store is
\* unchanged.
C10_InvalidRejected ==
  /\ [](\A p \in Procs :
          (op[p] = "generate" /\ OutOfRange(payload[p])) =>
            /\ pc[p] = "done"
            /\ response[p].status = HTTP_UNPROCESSABLE
            /\ code[p] = <<>> /\ attempts[p] = 0
            /\ created[p] = <<>> /\ ids[p] = <<>>)
  /\ [][ \A p \in Procs :
           (Stepped(p) /\ op'[p] = "generate" /\ OutOfRange(payload'[p]))
             => token' = token ]_vars

\* Requests of every rejected kind have been refused: the witness is one
\* whose length is below the range beside one whose count is above it.
C10_Witness ==
  \E p, q \in Procs :
    /\ GenerateDone(p) /\ response[p].status = HTTP_UNPROCESSABLE
    /\ payload[p].length = MinLength - 1
    /\ GenerateDone(q) /\ response[q].status = HTTP_UNPROCESSABLE
    /\ payload[q].count = MaxCount + 1
    /\ token # <<>>

\* C11: a redeem request whose code or client_id is the empty string never
\* succeeds, and no stored token is ever marked redeemed with an empty
\* redeemed_by.
C11_EmptyRedeemRejected ==
  /\ \A p \in Procs :
       ( /\ op[p] = "redeem"
         /\ payload[p].code = <<>> \/ payload[p].client_id = "" )
       => ~Succeeded(p)
  /\ \A i \in 1..Len(token) :
       token[i].redeemed => token[i].redeemed_by # Some("")

\* C19: every redeemed token that has an expires_at has redeemed_at strictly
\* before expires_at.
C19_RedeemedBeforeExpiry ==
  \A i \in 1..Len(token) :
    (token[i].redeemed /\ token[i].expires_at # None) =>
      /\ token[i].redeemed_at # None
      /\ token[i].redeemed_at[1] < token[i].expires_at[1]

\* The characters of the alphabet.
Alphabet == { alphabet[i] : i \in 1..Len(alphabet) }

\* The prefix a request asks for: none and the empty prefix alike add nothing.
PrefixOf(pl) == IF pl.prefix = None THEN <<>> ELSE pl.prefix[1]

\* c is the request's prefix followed by exactly `length` alphabet characters.
WellFormed(c, pl) ==
  LET pre == PrefixOf(pl)
  IN  /\ Len(c) = Len(pre) + pl.length
      /\ SubSeq(c, 1, Len(pre)) = pre
      /\ \A i \in (Len(pre) + 1)..Len(c) : c[i] \in Alphabet

\* C16: every code produced by generate is the given prefix (when set)
\* followed by exactly `length` characters of {A-Z, 0-9}; the prefix is not
\* counted in `length`, and with no prefix or an empty one the code is
\* exactly `length` such characters.  This holds of every candidate code,
\* every stored token of the request and every returned record.
C16_CodeFormat ==
  \A p \in Procs :
    op[p] = "generate" =>
      /\ code[p] # <<>> => WellFormed(code[p], payload[p])
      /\ \A k \in 1..Len(ids[p]) :
           WellFormed(token[ids[p][k]].code, payload[p])
      /\ \A k \in 1..Len(created[p]) :
           WellFormed(created[p][k].code, payload[p])
      /\ \A k \in 1..Len(response[p].body) :
           WellFormed(response[p].body[k].code, payload[p])

\* A request with the prefix "A" and one with the empty prefix have both
\* returned their codes: length + 1 characters and length characters.
C16_Witness ==
  \E p, q \in Procs :
    /\ GenerateDone(p) /\ Succeeded(p)
    /\ payload[p].prefix = Some(<<"A">>)
    /\ Len(response[p].body[1].code) = payload[p].length + 1
    /\ GenerateDone(q) /\ Succeeded(q)
    /\ payload[q].prefix = Some(<<>>)
    /\ Len(response[q].body[1].code) = payload[q].length

\* The request failed with the exhaustion error of _ensure_unique_code.
Exhausted(p) ==
  GenerateDone(p) /\ response[p].status = HTTP_SERVER_ERROR

\* C18 (as claimed): a generate request that fails with the exhaustion error
\* while producing its k-th token (k > 1) leaves none of the k-1 tokens it
\* generated earlier in the store.
C18_AllOrNothing ==
  \A p \in Procs :
    Exhausted(p) =>
      \A k \in 1..Len(ids[p]) :
        ~\E i \in 1..Len(token) : token[i]._id = ids[p][k]

\* C18 (amended): a generate request that fails with the exhaustion error
\* while producing its k-th token is not rolled back: the k-1 tokens it
\* stored earlier are still in the store, as requested, though none of them
\* is returned; the failing step itself writes nothing.
C18_EarlierTokensStay ==
  /\ [](\A p \in Procs :
          Exhausted(p) =>
            /\ response[p].body = <<>>
            /\ Len(ids[p]) = Len(created[p])
            /\ Len(ids[p]) < payload[p].count
            /\ \A k \in 1..Len(ids[p]) :
                 /\ ids[p][k] \in 1..Len(token)
                 /\ token[ids[p][k]]._id = ids[p][k]
                 /\ token[ids[p][k]].code = created[p][k].code
                 /\ token[ids[p][k]].value = payload[p].value
                 /\ token[ids[p][k]].expires_at = payload[p].expires_at)
  /\ [][ \A p \in Procs :
           (pc[p] = "ensure" /\ pc'[p] = "done") => token' = token ]_vars

\* A request for two tokens has failed on its second token, its first one
\* being in the store.
C18_Witness ==
  \E p \in Procs :
    /\ Exhausted(p)
    /\ payload[p].count = 2
    /\ Len(ids[p]) = 1
    /\ token[ids[p][1]].code = created[p][1].code

\* The request failed.
Failed(p) == Done(p) /\ response[p].status # HTTP_OK

\* The failure kind a response reports, read from its detail text.
FailureKind(r) ==
  CASE r.detail = "validation error" -> "validation"
    [] r.detail \in { "Invalid token code", "Token not found" } -> "not-found"
    [] r.detail = "Token already redeemed" -> "conflict"
    [] r.detail = "Token has expired" -> "expired"
    [] r.detail = "Could not generate a unique token code. Try again."
         -> "exhaustion"
    [] r.detail = "Database not available" -> "unavailable"
    [] OTHER -> "none"

\* C12: failures of different kinds (validation, not-found, conflict,
\* expired, exhaustion, unavailable) have different status codes, so the
\* kind can be told from the status code alone.
C12_DistinctCategories ==
  \A p, q \in Procs :
    ( /\ Failed(p) /\ Failed(q)
      /\ FailureKind(response[p]) # FailureKind(response[q]) )
    => response[p].status # response[q].status

\* C13: for every token a successful generate request returned, a get by
\* its code, at any later time and after any other operations, returns the
\* value, currency, purpose and expires_at given at issuance.
C13_GetRoundTrip ==
  \A p \in Procs :
    (GenerateDone(p) /\ Succeeded(p)) =>
      \A k \in 1..Len(response[p].body) :
        LET r == get_token(token, response[p].body[k].code)
        IN  /\ r.status = HTTP_OK
            /\ r.body[1].value = payload[p].value
            /\ r.body[1].currency = payload[p].currency
            /\ r.body[1].purpose = payload[p].purpose
            /\ r.body[1].expires_at = payload[p].expires_at

ListDone(p) == Done(p) /\ op[p] = "list"

\* The token is unredeemed and has no expires_at or one strictly after t.
Eligible(d, t) ==
  /\ ~d.redeemed
  /\ IF d.expires_at = None THEN TRUE ELSE d.expires_at[1] > t

\* redeem_token on code c, with every clock read at t, would succeed on coll.
RedeemWouldSucceed(coll, c, t) ==
  LET found == find_one(coll, c)
  IN  IF found = None THEN FALSE
      ELSE IF IsRedeemed(found[1]) THEN FALSE
      ELSE IF found[1].expires_at = None THEN TRUE
      ELSE ~IsExpired(found[1].expires_at[1], t)

\* A list response has at most max(1, min(limit, 500)) tokens, newest
\* created first, and with only_active only tokens eligible at the time the
\* request read the clock.
ListResponseOk(p) ==
  LET out == response[p].body
      limit == payload[p].limit
      bound == IF limit < 1 THEN 1 ELSE IF limit > 500 THEN 500 ELSE limit
  IN  /\ Len(out) <= bound
      /\ \A k \in 1..(Len(out) - 1) :
           out[k].created_at[1] >= out[k + 1].created_at[1]
      /\ payload[p].only_active =>
           \A k \in 1..Len(out) : Eligible(out[k], now[p][1])

\* A stored token is eligible for the only_active listing at time t exactly
\* when a redeem of its code at time t would succeed.
EligibleIffRedeemable ==
  \A i \in 1..Len(token) : \A t \in 0..MaxClock :
    Eligible(token[i], t) <=> RedeemWouldSucceed(token, token[i].code, t)

\* C14: list returns at most max(1, min(limit, 500)) tokens ordered newest
\* created first, with only_active only unredeemed tokens with no expires_at
\* or one strictly after the current time; and a token is eligible for the
\* only_active listing at time t exactly when a redeem of its code at time t
\* would succeed.
C14_ListActiveIffRedeemable ==
  /\ \A p \in Procs : (ListDone(p) /\ Succeeded(p)) => ListResponseOk(p)
  /\ EligibleIffRedeemable

GetDone(p) == Done(p) /\ op[p] = "get"

\* C15: get and list never change the store: whatever the arguments and
\* the store, every step of a get or list request leaves the collection as
\* it was, and a get of a code that is not stored fails with "not found".
C15_ReadsLeaveStore ==
  [][ \A p \in Procs :
        (Stepped(p) /\ op'[p] \in { "get", "list" }) =>
          /\ token' = token
          /\ db' = db
          /\ ( /\ op'[p] = "get" /\ db # "None"
               /\ find_one(token, payload'[p].code) = None )
             => response'[p] = Response(HTTP_NOT_FOUND, "Token not found", <<>>)
    ]_vars

\* A get of an unknown code has failed with "not found" and a list has
\* returned tokens, one of them past its expiry when the list read the clock.
C15_Witness ==
  \E p, q \in Procs :
    /\ GetDone(p) /\ response[p].status = HTTP_NOT_FOUND
    /\ payload[p].code = UnknownCode
    /\ ListDone(q) /\ Succeeded(q)
    /\ \E k \in 1..Len(response[q].body) :
         /\ response[q].body[k].expires_at # None
         /\ response[q].body[k].expires_at[1] <= now[q][1]
    /\ token # <<>>

\* The fields of a token that are set at issuance.
Issued(d) ==
  [ _id |-> d._id, code |-> d.code, value |-> d.value,
    currency |-> d.currency, purpose |-> d.purpose,
    expires_at |-> d.expires_at, created_at |-> d.created_at ]

\* C17: a redeem request, successful or failed, never adds or removes a
\* token, changes no token other than one whose code it names, and on that
\* token leaves code, value, currency, purpose, expires_at and created_at as
\* issued (only redeemed, redeemed_by, redeemed_at and updated_at change); a
\* redeem of an unknown code fails with "not found" and changes nothing.
C17_RedeemFrame ==
  [][ \A p \in Procs :
        (Stepped(p) /\ op'[p] = "redeem") =>
          /\ Len(token') = Len(token)
          /\ \A i \in 1..Len(token) :
               /\ Issued(token'[i]) = Issued(token[i])
               /\ token[i].code # payload'[p].code => token'[i] = token[i]
          /\ ( /\ pc[p] = "idle" /\ db # "None"
               /\ find_one(token, payload'[p].code) = None )
             => /\ pc'[p] = "done"
                /\ response'[p] =
                     Response(HTTP_NOT_FOUND, "Invalid token code", <<>>)
                /\ token' = token ]_vars

\* One request has redeemed its token, another token with a different code
\* being stored unredeemed and unwritten, and a request naming an unknown
\* code has failed with "not found".
C17_Witness ==
  \E p, q \in Procs :
    /\ RedeemDone(p) /\ Succeeded(p)
    /\ RedeemDone(q) /\ response[q].status = HTTP_NOT_FOUND
    /\ \E i, j \in 1..Len(token) :
         /\ token[i].code = payload[p].code
         /\ token[i].redeemed
         /\ token[i].updated_at # token[i].created_at
         /\ token[j].code # payload[p].code
         /\ ~token[j].redeemed
         /\ token[j].updated_at = token[j].created_at

====
